---- MODULE Spec2Model ----
(***************************************************************************)
(* Model of scripts/build_pcm_repo.py: the KiCad PCM package builder.      *)
(* main() is a straight-line program over the filesystem; every statement  *)
(* that touches the filesystem is one step, and each such step may fail    *)
(* with an OSError that propagates to the top (the script catches          *)
(* nothing).  Files are sequences of tokens, each token a tagged tuple.    *)
(***************************************************************************)
EXTENDS Integers, Sequences, FiniteSets, TLC

\* ------------------------------------------------------------------ bounds
MaxFileSize == 2    \* largest content file, in bytes
MaxClock == 2       \* latest wall-clock second at which a build starts
MaxRuns == 2        \* number of consecutive invocations of main()
ChunkSize == 2      \* bytes per f.read() in sha256_file, scaled down from 1 MiB

\* ------------------------------------------------------------ program text
REPOSITORY_SCHEMA ==
    "https://gitlab.com/kicad/code/kicad/-/raw/master/kicad/pcm/schemas/pcm.v1.schema.json#/definitions/Repository"

Statuses == {"stable", "testing", "development", "deprecated"}

\* The command lines tried: --version, --github-owner, --repo are free text,
\* --status is one of Statuses.
Args == [version : {"1.2.0"}, github_owner : {"acme"}, repo : {"widgets"},
         status : {"stable", "deprecated"}]

releases_dir == "releases"
packages_path == "packages.json"
resources_path == "resources.zip"
repository_path_wrong == packages_path
repository_path == "repository.json"

package_filename(identifier, a) == identifier \o "_v" \o a.version \o "_pcm.zip"
package_zip_path(identifier, a) == releases_dir \o "/" \o package_filename(identifier, a)

release_url(identifier, a) ==
    "https://github.com/" \o a.github_owner \o "/" \o a.repo \o "/releases/download/v"
        \o a.version \o "/" \o package_filename(identifier, a)
packages_url(a) ==
    "https://raw.githubusercontent.com/" \o a.github_owner \o "/" \o a.repo
        \o "/main/dist/packages.json"
resources_url(a) ==
    "https://raw.githubusercontent.com/" \o a.github_owner \o "/" \o a.repo
        \o "/main/dist/resources.zip"
repository_url(a) ==
    "https://raw.githubusercontent.com/" \o a.github_owner \o "/" \o a.repo
        \o "/main/dist/repository.json"

\* -------------------------------------------------------------- filesystem
\* A tree maps relative paths to nodes; "." is the directory itself, so a
\* tree with an empty domain is a directory that does not exist.
NoTree == <<>>
Dir == [kind |-> "dir", data |-> <<>>, mtime |-> 0]
File(bytes, t) == [kind |-> "file", data |-> bytes, mtime |-> t]
Exists(tree, p) == p \in DOMAIN tree
IsFile(tree, p) == Exists(tree, p) /\ tree[p].kind = "file"
Put(tree, p, node) == [q \in DOMAIN tree \cup {p} |-> IF q = p THEN node ELSE tree[q]]
Restrict(tree, S) == [q \in S |-> tree[q]]
Bytes(n) == [i \in 1..n |-> <<"byte", i>>]

\* Strings have no order in TLA+: Path.__lt__ on the paths the model uses.
PathOrder == <<"metadata.json", "symbols", "symbols/lib.kicad_sym">>
PathRank(p) == CHOOSE i \in 1..Len(PathOrder) : PathOrder[i] = p
PathLess(p, q) == PathRank(p) < PathRank(q)
Parent(p) == IF p = "symbols/lib.kicad_sym" THEN "symbols" ELSE "."

\* Every ordering in which rglob("*") may list the paths of S.
Listings(S) == {s \in [1..Cardinality(S) -> S] : {s[i] : i \in DOMAIN s} = S}

RECURSIVE InsertSorted(_, _)
InsertSorted(s, p) ==
    IF s = <<>> THEN <<p>>
    ELSE IF PathLess(p, Head(s)) THEN <<p>> \o s
    ELSE <<Head(s)>> \o InsertSorted(Tail(s), p)

RECURSIVE sorted(_)
sorted(s) == IF s = <<>> THEN <<>> ELSE InsertSorted(sorted(Tail(s)), Head(s))

SelectFiles(tree, s) == SelectSeq(s, LAMBDA p : tree[p].kind = "file")

\* ------------------------------------------------------------------ hashing
\* SHA-256 is taken as collision free: the digest of a byte string stands for
\* the byte string it was computed over.
Sha256(bytes) == <<"sha256", bytes>>

Min(a, b) == IF a < b THEN a ELSE b

\* for chunk in iter(lambda: f.read(n), b""): h.update(chunk)
RECURSIVE HashLoop(_, _, _)
HashLoop(h, bytes, pos) ==
    LET chunk == SubSeq(bytes, pos + 1, Min(pos + ChunkSize, Len(bytes)))
    IN IF chunk = <<>> THEN h ELSE HashLoop(h \o chunk, bytes, pos + Len(chunk))

RECURSIVE HashLoopShort(_, _, _)
HashLoopShort(h, bytes, pos) ==
    LET chunk == SubSeq(bytes, pos + 1, Min(pos + ChunkSize, Len(bytes)))
    IN IF Len(chunk) < ChunkSize THEN h
       ELSE HashLoopShort(h \o chunk, bytes, pos + Len(chunk))

sha256_file_short(bytes) == Sha256(HashLoopShort(<<>>, bytes, 0))
sha256_file(bytes) == Sha256(HashLoop(<<>>, bytes, 0))

\* --------------------------------------------------------------------- dicts
\* A dict is the sequence of its <<key, value>> pairs in insertion order.
Keys(d) == {d[i][1] : i \in DOMAIN d}
Has(d, k) == k \in Keys(d)
Get(d, k) == d[CHOOSE i \in DOMAIN d : d[i][1] = k][2]
Remove(d, k) == SelectSeq(d, LAMBDA kv : kv[1] # k)
Set(d, k, v) ==
    IF Has(d, k) THEN [i \in DOMAIN d |-> IF d[i][1] = k THEN <<k, v>> ELSE d[i]]
    ELSE Append(d, <<k, v>>)

\* metadata_base.pop("kicad_version", "8.0")
pop_kicad_version_value(d) == IF Has(d, "kicad_version") THEN Get(d, "kicad_version") ELSE "8.0"
pop_kicad_version_kept(d) == d
pop_kicad_version(d) == Remove(d, "kicad_version")

\* The one dict object in the list metadata["versions"].
version_entry_init(a, kv) ==
    <<<<"version", a.version>>, <<"status", a.status>>, <<"kicad_version", kv>>>>

\* metadata["versions"][0].update({...})
version_entry_update(e, sha, url, dsize, isize) ==
    Set(Set(Set(Set(e, "download_sha256", sha), "download_url", url),
            "download_size", dsize), "install_size", isize)

\* In memory the key "versions" holds a reference to the shared list; dumping
\* a dict follows the reference to what the list holds at that moment.
VersionsRef == "<list object>"
NL == <<"nl">>
dump_dict(d, entry) ==
    [i \in DOMAIN d |->
        <<"kv", d[i][1], IF d[i][1] = "versions" THEN <<entry>> ELSE d[i][2]>>]

\* json.dumps(metadata_in_package, indent=2) + "\n"
metadata_text(d, entry) == dump_dict(d, entry) \o <<NL>>

\* json.dumps({"packages": [metadata]}, indent=2) + "\n"
packages_text(d, entry) ==
    <<<<"open", "packages">>>> \o dump_dict(d, entry) \o <<<<"close", "packages">>, NL>>

\* metadata.get("maintainer", metadata["author"]): the default is evaluated
\* first, so a record without "author" raises KeyError either way.
maintainer_always_author(d) == Get(d, "author")
maintainer_of(d) == IF Has(d, "maintainer") THEN Get(d, "maintainer") ELSE Get(d, "author")

update_time_utc(t) == "1970-01-01 00:00:0" \o ToString(t)

\* The repository dict, key by key, and the trailing newline.
repository_fields(a, m, psha, rsha, t) ==
    << <<"kv", "$schema", REPOSITORY_SCHEMA>>,
       <<"kv", "name", a.repo \o " PCM repository">>,
       <<"kv", "maintainer", m>>,
       <<"kv", "packages.url", packages_url(a)>>,
       <<"kv", "packages.sha256", psha>>,
       <<"kv", "packages.update_time_utc", update_time_utc(t)>>,
       <<"kv", "packages.update_timestamp", t>>,
       <<"kv", "resources.url", resources_url(a)>>,
       <<"kv", "resources.sha256", rsha>>,
       <<"kv", "resources.update_time_utc", update_time_utc(t)>>,
       <<"kv", "resources.update_timestamp", t>>,
       NL >>

\* json.dumps(repository, indent=2) + "\n"
repository_text_swapped(a, m, psha, rsha, t) == repository_fields(a, m, rsha, psha, t)
repository_text(a, m, psha, rsha, t) == repository_fields(a, m, psha, rsha, t)

\* Reading a JSON text back: the value stored under a key, and whether the
\* text is whole (write_text wrote through to the trailing newline).
JsonHas(text, k) == \E i \in DOMAIN text : text[i][1] = "kv" /\ text[i][2] = k
JsonGet(text, k) == text[CHOOSE i \in DOMAIN text : text[i][1] = "kv" /\ text[i][2] = k][3]
JsonWhole(text) == text # <<>> /\ text[Len(text)] = NL

\* -------------------------------------------------------------------- zip
\* ZipInfo.from_file stores the file's mtime at the 2-second resolution of
\* the DOS date format.
DosTime(t) == t \div 2

zip_entry(tree, p) == <<"entry", p, DosTime(tree[p].mtime), tree[p].data>>
zip_end(n) == <<"eocd", n>>

\* write_zip_from_dir: the entries, in sorted order, then the central
\* directory that ZipFile.close() writes.
zip_entries(tree, listing) ==
    LET names == SelectFiles(tree, sorted(listing))
    IN [i \in DOMAIN names |-> zip_entry(tree, names[i])]
write_zip_from_dir(tree, listing) ==
    LET es == zip_entries(tree, listing) IN es \o <<zip_end(Len(es))>>

ZipWhole(bytes) ==
    /\ bytes # <<>>
    /\ bytes[Len(bytes)] = zip_end(Len(bytes) - 1)
ZipHasEntry(bytes, p) == \E i \in DOMAIN bytes : bytes[i][1] = "entry" /\ bytes[i][2] = p
ZipData(bytes, p) ==
    bytes[CHOOSE i \in DOMAIN bytes : bytes[i][1] = "entry" /\ bytes[i][2] = p][4]

\* sum(p.stat().st_size for p in path.rglob("*") if p.is_file())
RECURSIVE SumSizes(_, _)
SumSizes(tree, S) ==
    IF S = {} THEN 0
    ELSE LET p == CHOOSE q \in S : TRUE
         IN (IF tree[p].kind = "file" THEN Len(tree[p].data) ELSE 0)
                + SumSizes(tree, S \ {p})
dir_total_size_skipping_metadata(tree) == SumSizes(tree, DOMAIN tree \ {".", "metadata.json"})
dir_total_size(tree) == SumSizes(tree, DOMAIN tree \ {"."})

\* shutil.copytree(lib_content, stage_dir): copy2 keeps each file's mtime.
copytree(src) == src

\* shutil.rmtree(dist_dir)
rmtree_nothing(tree) == tree
rmtree(tree) == NoTree

\* releases_dir.mkdir(parents=True, exist_ok=True) is refused only when a
\* path on the way exists and is not a directory.
mkdir_refused(tree) ==
    \/ Exists(tree, ".") /\ tree["."].kind # "dir"
    \/ Exists(tree, releases_dir) /\ tree[releases_dir].kind # "dir"
mkdir_releases(tree) == Put(Put(tree, ".", Dir), releases_dir, Dir)

\* TemporaryDirectory.__exit__ removes the directory whatever the block did.
temp_cleanup_on_success(present, e) == IF e.kind = "none" THEN FALSE ELSE present
temp_cleanup(present, e) == FALSE


\* ------------------------------------------------------------------- inputs
\* pcm/metadata.base.json: "identifier" and, optionally, the other keys.
BaseFields ==
    << <<"identifier", "com.acme.widgets">>, <<"author", "Jane Doe">>,
       <<"maintainer", "Acme Corp">>, <<"kicad_version", "9.0">> >>
BaseFile(ks) == SelectSeq(BaseFields, LAMBDA kv : kv[1] \in ks \cup {"identifier"})
BaseFiles == {BaseFile(ks) : ks \in SUBSET {"author", "maintainer", "kicad_version"}}

\* lib-content: one library file in a subdirectory and, possibly, a
\* metadata.json of its own.  The files are old: mtime 0.
ContentTree(n, own) ==
    LET t == (".") :> Dir @@ ("symbols" :> Dir)
                 @@ ("symbols/lib.kicad_sym" :> File(Bytes(n), 0))
    IN IF own THEN Put(t, "metadata.json", File(Bytes(1), 0)) ELSE t
ContentTrees == {ContentTree(n, own) : n \in 0..MaxFileSize, own \in BOOLEAN}

\* What dist/ may hold before the first run.
Stale == File(<<<<"stale">>>>, 0)
OldDists ==
    { NoTree,
      ("." :> Dir) @@ ("stale.txt" :> Stale),
      ("." :> Dir) @@ (releases_dir :> Stale),
      ("." :> Dir) @@ (releases_dir :> Dir) @@ ("releases/old_pcm.zip" :> Stale)
          @@ (repository_path :> Stale) }
DistParent(p) == IF p \in {".", releases_dir, packages_path, resources_path,
                           repository_path, "stale.txt"} THEN "." ELSE releases_dir

\* ------------------------------------------------------------------- state
VARIABLES
    lib_content,      \* the content directory
    base_file,        \* pcm/metadata.base.json
    args,             \* the parsed command line
    dist,             \* the output directory
    temp_dir,         \* whether the TemporaryDirectory exists
    stage_dir,        \* temp_dir / "package-root"
    clock,            \* wall-clock second of the current run
    run,              \* which invocation of main() this is
    pc,               \* the statement main() is at
    exc,              \* the exception in flight, with the statement that raised it
    metadata_base, identifier, kicad_version, install_size, metadata,
    version_entry, download_size, download_sha, maintainer, packages_sha,
    resources_sha, timestamp,
    stdout,           \* lines printed by this run
    log,              \* this run's writes and hashes of files under dist/, in order
    prev_sha          \* download_sha of the last run that completed

inputs == <<lib_content, base_file, args>>
locals == <<metadata_base, identifier, kicad_version, install_size, metadata,
            version_entry, download_size, download_sha, maintainer, packages_sha,
            resources_sha, timestamp>>
temp == <<temp_dir, stage_dir>>
proc == <<clock, run, prev_sha>>
vars == <<inputs, dist, temp, proc, pc, exc, locals, stdout, log>>

NoExc == [kind |-> "none", at |-> "none"]

\* The statements inside "with tempfile.TemporaryDirectory(...)".
WithBlock == {"copytree", "measure", "build_metadata", "write_metadata", "write_zip"}

\* Where control goes when the statement at `at` raises: nothing is caught,
\* so out of the with block (through __exit__) and out of main().
on_error_continue(at, next) == next
on_error(at, next) == IF at \in WithBlock THEN "exit_with" ELSE "aborted"

Raise(kind, at, next) ==
    /\ exc' = [kind |-> kind, at |-> at]
    /\ pc' = on_error(at, next)

Goto(next) == pc' = next /\ exc' = exc

Prefixes(text) == {SubSeq(text, 1, k) : k \in 0..(Len(text) - 1)}

Init ==
    /\ lib_content \in ContentTrees
    /\ base_file \in BaseFiles
    /\ args \in Args
    /\ dist \in OldDists
    /\ temp_dir = FALSE
    /\ stage_dir = NoTree
    /\ clock = 0
    /\ run = 1
    /\ pc = "read_base"
    /\ exc = NoExc
    /\ metadata_base = <<>>
    /\ identifier = ""
    /\ kicad_version = ""
    /\ install_size = 0
    /\ metadata = <<>>
    /\ version_entry = <<>>
    /\ download_size = 0
    /\ download_sha = <<>>
    /\ maintainer = ""
    /\ packages_sha = <<>>
    /\ resources_sha = <<>>
    /\ timestamp = 0
    /\ stdout = <<>>
    /\ log = <<>>
    /\ prev_sha = <<>>

\* lines 58-66
ReadBase ==
    /\ pc = "read_base"
    /\ UNCHANGED <<inputs, dist, temp, proc, stdout, log>>
    /\ UNCHANGED <<install_size, metadata, version_entry, download_size, download_sha,
                   maintainer, packages_sha, resources_sha, timestamp>>
    /\ \/ /\ metadata_base' = pop_kicad_version(base_file)
          /\ identifier' = Get(base_file, "identifier")
          /\ kicad_version' = pop_kicad_version_value(base_file)
          /\ Goto("rmtree")
       \/ /\ Raise("OSError", "read_base", "rmtree")
          /\ UNCHANGED <<metadata_base, identifier, kicad_version>>

\* lines 68-69
Rmtree ==
    /\ pc = "rmtree"
    /\ UNCHANGED <<inputs, temp, proc, locals, stdout, log>>
    /\ \/ /\ dist' = IF Exists(dist, ".") THEN rmtree(dist) ELSE dist
          /\ Goto("mkdir")
       \/ /\ Exists(dist, ".")
          /\ \E S \in SUBSET DOMAIN dist :
                /\ "." \in S
                /\ \A p \in S : DistParent(p) \in S
                /\ dist' = Restrict(dist, S)
          /\ Raise("OSError", "rmtree", "mkdir")

\* line 70
Mkdir ==
    /\ pc = "mkdir"
    /\ UNCHANGED <<inputs, temp, proc, locals, stdout, log>>
    /\ \/ /\ ~mkdir_refused(dist)
          /\ dist' = mkdir_releases(dist)
          /\ Goto("mkdtemp")
       \/ /\ mkdir_refused(dist)
          /\ dist' = dist
          /\ Raise("FileExistsError", "mkdir", "mkdtemp")
       \/ /\ dist' \in {dist, Put(dist, ".", Dir)}
          /\ Raise("OSError", "mkdir", "mkdtemp")

\* line 72: entering the with block
EnterTemp ==
    /\ pc = "mkdtemp"
    /\ UNCHANGED <<inputs, dist, stage_dir, proc, locals, stdout, log>>
    /\ \/ temp_dir' = TRUE /\ Goto("copytree")
       \/ temp_dir' = temp_dir /\ Raise("OSError", "mkdtemp", "copytree")

\* lines 73-75
Copytree ==
    /\ pc = "copytree"
    /\ UNCHANGED <<inputs, dist, temp_dir, proc, locals, stdout, log>>
    /\ \/ /\ stage_dir' = copytree(lib_content)
          /\ Goto("measure")
       \/ /\ \E S \in SUBSET DOMAIN lib_content :
                /\ S # DOMAIN lib_content
                /\ \A p \in S : Parent(p) \in S
                /\ stage_dir' = Restrict(copytree(lib_content), S)
          /\ Raise("OSError", "copytree", "measure")

\* line 77
Measure ==
    /\ pc = "measure"
    /\ UNCHANGED <<inputs, dist, temp, proc, stdout, log>>
    /\ UNCHANGED <<metadata_base, identifier, kicad_version, metadata, version_entry,
                   download_size, download_sha, maintainer, packages_sha,
                   resources_sha, timestamp>>
    /\ \/ install_size' = dir_total_size(stage_dir) /\ Goto("build_metadata")
       \/ install_size' = install_size /\ Raise("OSError", "measure", "build_metadata")

\* lines 78-87: metadata and metadata_in_package are shallow copies, so both
\* hold the same list and the same version entry.
BuildMetadata ==
    /\ pc = "build_metadata"
    /\ UNCHANGED <<inputs, dist, temp, proc, stdout, log>>
    /\ UNCHANGED <<metadata_base, identifier, kicad_version, install_size,
                   download_size, download_sha, maintainer, packages_sha,
                   resources_sha, timestamp>>
    /\ metadata' = Set(metadata_base, "versions", VersionsRef)
    /\ version_entry' = version_entry_init(args, kicad_version)
    /\ Goto("write_metadata")

\* lines 87-91: metadata_in_package = dict(metadata) has the pairs of metadata
WriteMetadata ==
    /\ pc = "write_metadata"
    /\ UNCHANGED <<inputs, dist, temp_dir, proc, locals, stdout, log>>
    /\ LET text == metadata_text(metadata, version_entry)
       IN \/ /\ stage_dir' = Put(stage_dir, "metadata.json", File(text, clock))
             /\ Goto("write_zip")
          \/ /\ \/ stage_dir' = stage_dir
                \/ \E part \in Prefixes(text) :
                      stage_dir' = Put(stage_dir, "metadata.json", File(part, clock))
             /\ Raise("OSError", "write_metadata", "write_zip")

\* lines 93-94.  A failure leaves no file (the open failed) or the entries
\* written so far, with or without the directory that close() appends.
WriteZip ==
    /\ pc = "write_zip"
    /\ UNCHANGED <<inputs, temp, proc, locals, stdout>>
    /\ LET path == package_zip_path(identifier, args)
       IN /\ log' = Append(log, <<"write", path>>)
          /\ \E listing \in Listings(DOMAIN stage_dir \ {"."}) :
                \/ /\ dist' = Put(dist, path,
                                  File(write_zip_from_dir(stage_dir, listing), clock))
                   /\ Goto("exit_with")
                \/ /\ \/ dist' = dist
                      \/ \E part \in Prefixes(zip_entries(stage_dir, listing)) :
                            \E tail \in {<<>>, <<zip_end(Len(part))>>} :
                               dist' = Put(dist, path, File(part \o tail, clock))
                   /\ Raise("OSError", "write_zip", "exit_with")

\* line 94 -> 96: leaving the with block, normally or with an exception
ExitTemp ==
    /\ pc = "exit_with"
    /\ UNCHANGED <<inputs, dist, proc, locals, stdout, log, exc>>
    /\ temp_dir' = temp_cleanup(temp_dir, exc)
    /\ stage_dir' = IF temp_dir' THEN stage_dir ELSE NoTree
    /\ pc' = IF exc = NoExc THEN "stat_zip" ELSE "aborted"


\* line 96
StatZip ==
    /\ pc = "stat_zip"
    /\ UNCHANGED <<inputs, dist, temp, proc, stdout, log>>
    /\ UNCHANGED <<metadata_base, identifier, kicad_version, install_size, metadata,
                   version_entry, download_sha, maintainer, packages_sha,
                   resources_sha, timestamp>>
    /\ LET path == package_zip_path(identifier, args)
       IN \/ /\ IsFile(dist, path)
             /\ download_size' = Len(dist[path].data)
             /\ Goto("hash_zip")
          \/ /\ download_size' = download_size
             /\ Raise("OSError", "stat_zip", "hash_zip")

\* line 97
HashZip ==
    /\ pc = "hash_zip"
    /\ UNCHANGED <<inputs, dist, temp, proc, stdout>>
    /\ UNCHANGED <<metadata_base, identifier, kicad_version, install_size, metadata,
                   version_entry, download_size, maintainer, packages_sha,
                   resources_sha, timestamp>>
    /\ LET path == package_zip_path(identifier, args)
       IN \/ /\ IsFile(dist, path)
             /\ download_sha' = sha256_file(dist[path].data)
             /\ log' = Append(log, <<"hash", path>>)
             /\ Goto("update_entry")
          \/ /\ UNCHANGED <<download_sha, log>>
             /\ Raise("OSError", "hash_zip", "update_entry")

\* lines 99-106: the entry updated is the one metadata_in_package shares
UpdateEntry ==
    /\ pc = "update_entry"
    /\ UNCHANGED <<inputs, dist, temp, proc, stdout, log>>
    /\ UNCHANGED <<metadata_base, identifier, kicad_version, install_size, metadata,
                   download_size, download_sha, maintainer, packages_sha,
                   resources_sha, timestamp>>
    /\ version_entry' = version_entry_update(version_entry, download_sha,
                            release_url(identifier, args), download_size, install_size)
    /\ Goto("write_packages")

\* lines 108-110
WritePackages ==
    /\ pc = "write_packages"
    /\ UNCHANGED <<inputs, temp, proc, locals, stdout>>
    /\ log' = Append(log, <<"write", packages_path>>)
    /\ LET text == packages_text(metadata, version_entry)
       IN \/ /\ dist' = Put(dist, packages_path, File(text, clock))
             /\ Goto("write_resources")
          \/ /\ \/ dist' = dist
                \/ \E part \in Prefixes(text) :
                      dist' = Put(dist, packages_path, File(part, clock))
             /\ Raise("OSError", "write_packages", "write_resources")

\* lines 112-114: a zip with no entries
WriteResources ==
    /\ pc = "write_resources"
    /\ UNCHANGED <<inputs, temp, proc, locals, stdout>>
    /\ log' = Append(log, <<"write", resources_path>>)
    /\ \/ /\ dist' = Put(dist, resources_path, File(<<zip_end(0)>>, clock))
          /\ Goto("now")
       \/ /\ dist' \in {dist, Put(dist, resources_path, File(<<>>, clock))}
          /\ Raise("OSError", "write_resources", "now")

\* lines 116-118
Now ==
    /\ pc = "now"
    /\ UNCHANGED <<inputs, dist, temp, proc, stdout, log>>
    /\ UNCHANGED <<metadata_base, identifier, kicad_version, install_size, metadata,
                   version_entry, download_size, download_sha, maintainer,
                   packages_sha, resources_sha>>
    /\ timestamp' = clock
    /\ Goto("maintainer")

\* lines 126-129: the dict display evaluates its values top to bottom
Maintainer ==
    /\ pc = "maintainer"
    /\ UNCHANGED <<inputs, dist, temp, proc, stdout, log>>
    /\ UNCHANGED <<metadata_base, identifier, kicad_version, install_size, metadata,
                   version_entry, download_size, download_sha, packages_sha,
                   resources_sha, timestamp>>
    /\ \/ /\ Has(metadata, "author")
          /\ maintainer' = maintainer_of(metadata)
          /\ Goto("hash_packages")
       \/ /\ ~Has(metadata, "author")
          /\ maintainer' = maintainer
          /\ Raise("KeyError", "maintainer", "hash_packages")

\* line 132
HashPackages ==
    /\ pc = "hash_packages"
    /\ UNCHANGED <<inputs, dist, temp, proc, stdout>>
    /\ UNCHANGED <<metadata_base, identifier, kicad_version, install_size, metadata,
                   version_entry, download_size, download_sha, maintainer,
                   resources_sha, timestamp>>
    /\ \/ /\ IsFile(dist, packages_path)
          /\ packages_sha' = sha256_file(dist[packages_path].data)
          /\ log' = Append(log, <<"hash", packages_path>>)
          /\ Goto("hash_resources")
       \/ /\ UNCHANGED <<packages_sha, log>>
          /\ Raise("OSError", "hash_packages", "hash_resources")

\* line 138
HashResources ==
    /\ pc = "hash_resources"
    /\ UNCHANGED <<inputs, dist, temp, proc, stdout>>
    /\ UNCHANGED <<metadata_base, identifier, kicad_version, install_size, metadata,
                   version_entry, download_size, download_sha, maintainer,
                   packages_sha, timestamp>>
    /\ \/ /\ IsFile(dist, resources_path)
          /\ resources_sha' = sha256_file(dist[resources_path].data)
          /\ log' = Append(log, <<"hash", resources_path>>)
          /\ Goto("write_repository")
       \/ /\ UNCHANGED <<resources_sha, log>>
          /\ Raise("OSError", "hash_resources", "write_repository")

\* lines 144-145
WriteRepository ==
    /\ pc = "write_repository"
    /\ UNCHANGED <<inputs, temp, proc, locals, stdout>>
    /\ log' = Append(log, <<"write", repository_path>>)
    /\ LET text == repository_text(args, maintainer, packages_sha, resources_sha,
                                   timestamp)
       IN \/ /\ dist' = Put(dist, repository_path, File(text, clock))
             /\ Goto("print")
          \/ /\ \/ dist' = dist
                \/ \E part \in Prefixes(text) :
                      dist' = Put(dist, repository_path, File(part, clock))
             /\ Raise("OSError", "write_repository", "print")

\* lines 147-151
PrintResult ==
    /\ pc = "print"
    /\ UNCHANGED <<inputs, dist, temp, proc, locals, log>>
    /\ stdout' = stdout \o << "Built package: dist/" \o package_zip_path(identifier, args),
                              "Repository URL for KiCad PCM:",
                              repository_url(args) >>
    /\ Goto("done")

\* The script is run again, at the same time or later, on the same inputs
\* and on the dist/ the run before left behind.
Rerun ==
    /\ pc \in {"done", "aborted"}
    /\ run < MaxRuns
    /\ run' = run + 1
    /\ clock' \in clock..MaxClock
    /\ prev_sha' = IF pc = "done" THEN download_sha ELSE prev_sha
    /\ pc' = "read_base"
    /\ exc' = NoExc
    /\ metadata_base' = <<>>
    /\ identifier' = ""
    /\ kicad_version' = ""
    /\ install_size' = 0
    /\ metadata' = <<>>
    /\ version_entry' = <<>>
    /\ download_size' = 0
    /\ download_sha' = <<>>
    /\ maintainer' = ""
    /\ packages_sha' = <<>>
    /\ resources_sha' = <<>>
    /\ timestamp' = 0
    /\ stdout' = <<>>
    /\ log' = <<>>
    /\ UNCHANGED <<inputs, dist, temp>>

Next ==
    \/ ReadBase \/ Rmtree \/ Mkdir \/ EnterTemp \/ Copytree \/ Measure
    \/ BuildMetadata \/ WriteMetadata \/ WriteZip \/ ExitTemp \/ StatZip
    \/ HashZip \/ UpdateEntry \/ WritePackages \/ WriteResources \/ Now
    \/ Maintainer \/ HashPackages \/ HashResources \/ WriteRepository
    \/ PrintResult \/ Rerun

Spec == Init /\ [][Next]_vars


\* ------------------------------------------------------------------ claims
archive_path == package_zip_path(Get(base_file, "identifier"), args)
Ended == pc \in {"done", "aborted"}
IndexVersions(text) == JsonGet(text, "versions")
IndexEntry(text) == IndexVersions(text)[1]

WriteAt(i, p) == log[i] = <<"write", p>>
HashAt(i, p) == log[i] = <<"hash", p>>

\* The file at p is whole: written through to its last byte.
Whole(p) ==
    /\ IsFile(dist, p)
    /\ IF p = packages_path THEN JsonWhole(dist[p].data) ELSE ZipWhole(dist[p].data)

\* A hash of p is taken only after p was written and is whole, and p is not
\* written again afterwards.
HashedAfterWritten(p) ==
    \A i \in DOMAIN log :
        HashAt(i, p) =>
            /\ \E j \in 1..(i - 1) : WriteAt(j, p)
            /\ \A j \in (i + 1)..Len(log) : ~WriteAt(j, p)
            /\ Whole(p)

\* The file c that carries the URL of p is written only after p was hashed.
PublishedAfterHashed(p, c) ==
    \A i \in DOMAIN log : WriteAt(i, c) => \E j \in 1..(i - 1) : HashAt(j, p)

\* C1: in every run, each hashed artifact (the archive, packages.json,
\* resources.zip) is completely written, then hashed, then the first file
\* carrying its URL is written (packages.json for the archive,
\* repository.json for the other two); no artifact is written after its hash.
C1_HashOrder ==
    /\ HashedAfterWritten(archive_path)
    /\ HashedAfterWritten(packages_path)
    /\ HashedAfterWritten(resources_path)
    /\ PublishedAfterHashed(archive_path, packages_path)
    /\ PublishedAfterHashed(packages_path, repository_path)
    /\ PublishedAfterHashed(resources_path, repository_path)

C1_Witness ==
    /\ pc = "done"
    /\ log = << <<"write", archive_path>>, <<"hash", archive_path>>,
                <<"write", packages_path>>, <<"write", resources_path>>,
                <<"hash", packages_path>>, <<"hash", resources_path>>,
                <<"write", repository_path>> >>

\* C2: after a successful build the one version entry of dist/packages.json
\* has download_sha256 = SHA-256 of the bytes of the archive as it is on disk,
\* and download_size = the archive's length.
C2_DownloadHash ==
    pc = "done" =>
        LET text == dist[packages_path].data
            zip == dist[archive_path].data
        IN /\ Len(IndexVersions(text)) = 1
           /\ Get(IndexEntry(text), "download_sha256") = Sha256(zip)
           /\ Get(IndexEntry(text), "download_size") = Len(zip)

C2_Witness ==
    /\ pc = "done"
    /\ Len(dist[archive_path].data) > ChunkSize
    /\ Get(IndexEntry(dist[packages_path].data), "download_sha256")
          = Sha256(dist[archive_path].data)

\* C3: two builds on identical inputs and arguments, run at different
\* times, produce archives with the same download_sha256.
C3_ReproducibleHash ==
    (pc = "done" /\ prev_sha # <<>>) => download_sha = prev_sha

\* C4: once the staging directory was created it does not exist in any
\* state in which the build has ended, by success or by failure.
C4_TempRemoved == Ended => (~temp_dir /\ stage_dir = NoTree)

C4_Witness ==
    /\ pc = "aborted"
    /\ exc.at = "write_zip"
    /\ ~temp_dir

\* C5: a run on a dist/ left by a previous build, or holding anything else,
\* is not made to fail by what dist/ holds, and when it completes dist/ holds
\* exactly the four files this run wrote.
C5_FreshDist ==
    /\ exc.kind # "FileExistsError"
    /\ pc = "done" =>
          /\ DOMAIN dist = {".", releases_dir, archive_path, packages_path,
                            resources_path, repository_path}
          /\ \A p \in {archive_path, packages_path, resources_path, repository_path} :
                /\ IsFile(dist, p)
                /\ \E i \in DOMAIN log : WriteAt(i, p)

C5_Witness ==
    /\ pc = "done"
    /\ run = 2
    /\ prev_sha # <<>>

RECURSIVE Payload(_)
Payload(zip) ==
    IF zip = <<>> THEN 0
    ELSE (IF Head(zip)[1] = "entry" THEN Len(Head(zip)[4]) ELSE 0) + Payload(Tail(zip))

OwnMetadataSize ==
    IF Exists(lib_content, "metadata.json")
    THEN Len(lib_content["metadata.json"].data) ELSE 0

\* C6: the published install_size is the total size of the regular files of
\* the staged copy of the content as it was before metadata.json was
\* generated into it: the generated file's size is not part of it.
C6_InstallSize ==
    pc = "done" =>
        LET isize == Get(IndexEntry(dist[packages_path].data), "install_size")
            zip == dist[archive_path].data
        IN /\ isize = SumSizes(lib_content, DOMAIN lib_content)
           /\ isize = Payload(zip) - Len(ZipData(zip, "metadata.json")) + OwnMetadataSize

C6_Witness ==
    /\ pc = "done"
    /\ Exists(lib_content, "metadata.json")
    /\ Get(IndexEntry(dist[packages_path].data), "install_size") = MaxFileSize + 1

\* C7: repository.json's maintainer is the base metadata's maintainer when
\* it has one, and its author otherwise.
C7_Maintainer ==
    (IsFile(dist, repository_path) /\ JsonHas(dist[repository_path].data, "maintainer")) =>
        JsonGet(dist[repository_path].data, "maintainer")
            = IF Has(base_file, "maintainer") THEN Get(base_file, "maintainer")
              ELSE Get(base_file, "author")

C7_Witness ==
    /\ pc = "done"
    /\ ~Has(base_file, "maintainer")
    /\ JsonGet(dist[repository_path].data, "maintainer") = "Jane Doe"

\* C8: a failure at any step aborts the build there: within the run no
\* later statement executes, dist/ is neither written nor rolled back, and
\* the success lines are not printed.
C8_AbortStops ==
    /\ [](pc = "aborted" => stdout = <<>>)
    /\ [][(exc = NoExc /\ exc' # NoExc) =>
            (pc' \in {"exit_with", "aborted"} /\ stdout' = stdout /\ locals' = locals)]_vars
    /\ [][(exc # NoExc /\ run' = run) =>
            (pc' = "aborted" /\ dist' = dist /\ stdout' = stdout /\ locals' = locals)]_vars

C8_Witness ==
    /\ pc = "aborted"
    /\ exc = [kind |-> "OSError", at |-> "write_resources"]
    /\ Whole(archive_path)
    /\ Whole(packages_path)
    /\ ~Exists(dist, repository_path)
    /\ stdout = <<>>

\* C9: the metadata.json inside the archive is the base metadata without its
\* top-level kicad_version, plus a versions list of one entry with exactly
\* the keys version, status and kicad_version; the download and install
\* fields added later to the shared entry never appear in it.
C9_ShippedMetadata ==
    (IsFile(dist, archive_path) /\ ZipHasEntry(dist[archive_path].data, "metadata.json")) =>
        LET text == ZipData(dist[archive_path].data, "metadata.json")
            kept == Remove(base_file, "kicad_version")
            kv == IF Has(base_file, "kicad_version") THEN Get(base_file, "kicad_version")
                  ELSE "8.0"
        IN /\ JsonWhole(text)
           /\ Len(text) = Len(kept) + 2
           /\ \A i \in DOMAIN kept : text[i] = <<"kv", kept[i][1], kept[i][2]>>
           /\ ~JsonHas(text, "kicad_version")
           /\ Len(IndexVersions(text)) = 1
           /\ IndexEntry(text) = << <<"version", args.version>>, <<"status", args.status>>,
                                    <<"kicad_version", kv>> >>

C9_Witness ==
    /\ pc = "done"
    /\ Has(base_file, "kicad_version")
    /\ Keys(version_entry) = {"version", "status", "kicad_version", "download_sha256",
                              "download_url", "download_size", "install_size"}
    /\ Keys(IndexEntry(ZipData(dist[archive_path].data, "metadata.json")))
          = {"version", "status", "kicad_version"}

\* The output directory has been recreated by the current run.
Recreated ==
    /\ pc \notin {"read_base", "rmtree", "mkdir"}
    /\ ~(pc = "aborted" /\ exc.at \in {"read_base", "rmtree", "mkdir"})

\* C10: once dist/ has been recreated, also in aborted runs, if
\* repository.json exists then the archive, packages.json and resources.zip
\* exist in their final form and the hashes repository.json records for
\* packages.json and resources.zip are those of their current bytes.
C10_RepositoryLast ==
    (Recreated /\ Exists(dist, repository_path)) =>
        LET text == dist[repository_path].data
        IN /\ Whole(archive_path)
           /\ Whole(packages_path)
           /\ Whole(resources_path)
           /\ Get(IndexEntry(dist[packages_path].data), "download_sha256")
                 = Sha256(dist[archive_path].data)
           /\ JsonHas(text, "packages.sha256") =>
                 JsonGet(text, "packages.sha256") = Sha256(dist[packages_path].data)
           /\ JsonHas(text, "resources.sha256") =>
                 JsonGet(text, "resources.sha256") = Sha256(dist[resources_path].data)

C10_Witness ==
    /\ pc = "aborted"
    /\ exc.at = "write_repository"
    /\ IsFile(dist, repository_path)
    /\ JsonHas(dist[repository_path].data, "packages.sha256")
    /\ ~JsonHas(dist[repository_path].data, "resources.sha256")

====
